---- MODULE Spec2Model ----
(***************************************************************************)
(* Interpreter::prepare and Interpreter::execute of machine/interpreter.cpp *)
(* as a state machine.  prepare is walked one loop iteration at a time     *)
(* (pass 1, the allocation of the references array, pass 2, the final      *)
(* counts); execute is one step per outcome of its try block.              *)
(*                                                                         *)
(* Stream positions are the code's: 0 .. total-1.  Sequences are 1-based,  *)
(* so word ip of a stream s is s[ip + 1].                                  *)
(***************************************************************************)
EXTENDS Integers, Sequences, FiniteSets, TLC

\* ------------------------------------------------------------------ bounds

\* Longest input stream, in words.
MaxLen == 5

\* Longest input stream prepared twice, and longest executed.
TwiceLen == 5
ExecLen == 2

\* ------------------------------------------------------------------- words

\* A word of a stream.  tag says what the word holds, v its integer part,
\* obj the object or opcode it names.
Word(tag, v, obj) == [tag |-> tag, v |-> v, obj |-> obj]

\* Words of the input tuple (Fixnums): an opcode id and an operand.
Id(op)  == Word("id", 0, op)
Num(n)  == Word("num", n, "")

\* Words of the prepared stream.
Unset         == Word("unset", 0, "")
Raw(n)        == Word("raw", n, "")
HandlerOf(op) == Word("handler", 0, op)
ObjRef(o)     == Word("obj", 0, o)
SiteRef(id)   == Word("site", id, "")
Boxed(n)      == Word("fixnum", n, "")
NilTag(ip)    == Word("niltag", ip, "")
InvokerOf(n)  == Word("invoker", 0, n)
CounterAt(ip) == Word("counter", ip, "")

\* opcodes[ip + k] += stack_size
Add(w, n) == [w EXCEPT !.v = @ + n]

\* ----------------------------------------------------------- opcode classes

\* The case labels of the register switch.
OneRegOps ==
  {"b_if", "r_load_local", "r_store_local", "r_load_local_depth",
   "r_store_local_depth", "r_load_stack", "r_store_stack", "r_load_self",
   "r_load_neg1", "r_load_0", "r_load_1", "r_load_2", "r_load_false",
   "r_load_true", "r_ret", "m_log"}

TwoRegOps ==
  {"n_ineg", "n_ineg_o", "n_inot", "n_iinc", "n_idec", "n_ibits", "n_isize",
   "n_iflt", "n_eneg", "n_enot", "n_ebits", "n_esize", "n_eflt", "n_dneg",
   "b_if_int", "b_if_eint", "b_if_float", "r_load_int", "r_store_int",
   "r_load_float", "r_store_float", "r_load_bool", "r_load_m_binops",
   "r_load_f_binops", "r_copy", "n_ipopcnt", "a_instance", "a_kind",
   "a_method", "a_receiver_method", "a_type", "a_function", "a_equal",
   "a_not_equal", "a_less", "a_less_equal", "a_greater", "a_greater_equal"}

ThreeRegOps ==
  {"n_iadd", "n_isub", "n_imul", "n_idiv", "n_imod", "n_iand", "n_ior",
   "n_ixor", "n_ishl", "n_ishr", "n_iadd_o", "n_isub_o", "n_imul_o",
   "n_idiv_o", "n_imod_o", "n_idivmod", "n_ipow_o", "n_ishl_o", "n_ishr_o",
   "n_icmp", "n_ieq", "n_ine", "n_ilt", "n_ile", "n_igt", "n_ige", "n_istr",
   "n_promote", "n_demote", "n_eadd", "n_esub", "n_emul", "n_ediv", "n_emod",
   "n_edivmod", "n_epow", "n_eand", "n_eor", "n_exor", "n_eshl", "n_eshr",
   "n_epopcnt", "n_ecmp", "n_eeq", "n_ene", "n_elt", "n_ele", "n_egt",
   "n_ege", "n_estr", "n_dadd", "n_dsub", "n_dmul", "n_ddiv", "n_dmod",
   "n_ddivmod", "n_dpow", "n_dcmp", "n_deq", "n_dne", "n_dlt", "n_dle",
   "n_dgt", "n_dge", "n_dstr"}

\* The case labels of the second switch.
LiteralOps == {"push_memo", "push_literal"}
SymbolOps  == {"set_ivar", "push_ivar", "set_const", "set_const_at"}
SuperOps   == {"send_super_stack_with_block", "send_super_stack_with_splat",
               "zsuper"}
SendOps    == SuperOps \cup
              {"send_vcall", "send_method", "send_stack",
               "send_stack_with_block", "send_stack_with_splat",
               "object_to_s", "check_serial", "check_serial_private",
               "b_if_serial"}
ConstOps   == {"push_const", "find_const"}
UnwindOps  == {"setup_unwind", "unwind"}

\* Instructions::instruction_data(op).width for the opcodes of the streams
\* checked: the header plus the operands the opcode carries.
Width(op) ==
  CASE op \in {"ret", "allow_private"} -> 1
    [] op \in {"r_load_0", "push_int", "push_tagged_nil", "create_block",
               "push_literal", "set_ivar", "zsuper", "send_vcall",
               "send_method", "object_to_s", "push_const", "unwind",
               "m_counter"} -> 2
    [] op \in {"r_load_nil", "r_load_literal", "n_ineg", "setup_unwind",
               "invoke_primitive", "send_stack"} -> 3
    [] op \in {"b_if_serial", "n_iadd"} -> 4

\* ------------------------------------------------------------------ inputs

\* The opcodes the checked streams are written in: one of every group of
\* case labels that prepare treats alike.
StreamOps ==
  {"ret", "allow_private",
   "r_load_0", "push_int", "push_tagged_nil", "create_block", "push_literal",
   "set_ivar", "zsuper", "send_vcall", "send_method", "object_to_s",
   "push_const", "unwind", "m_counter",
   "r_load_nil", "r_load_literal", "n_ineg", "setup_unwind",
   "invoke_primitive", "send_stack",
   "b_if_serial", "n_iadd"}

OperandVals == {0, 1}

\* The operand tuples of an instruction of width w.
Operands(w) ==
  CASE w = 1 -> {<<>>}
    [] w = 2 -> {<<Num(a)>> : a \in OperandVals}
    [] w = 3 -> {<<Num(a), Num(b)>> : a \in OperandVals, b \in OperandVals}
    [] w = 4 -> {<<Num(a), Num(b), Num(c)>> :
                   a \in OperandVals, b \in OperandVals, c \in OperandVals}

\* Every instruction of width w, as its words.
InstrsOfWidth(w) ==
  UNION {{<<Id(op)>> \o args : args \in Operands(w)} :
           op \in {o \in StreamOps : Width(o) = w}}

\* The literals tuples checked: a Symbol, a String, a CompiledCode.
LiteralPools == {<<"sym", "str">>, <<"code">>}

StackSizes == {2}

\* ------------------------------------------------------------- the objects

\* as<Symbol>, as<String>, try_as<CompiledCode>: the kind of a literal.
IsSymbol(o) == o = "sym"
IsString(o) == o = "str"
IsCode(o)   == o = "code"

\* What lits->at(index) can give: the literal, and past the end of the
\* tuple either nil or a raised bounds error.
LitAt(pool, index) ==
  IF index >= 0 /\ index < Len(pool) THEN {pool[index + 1]}
  ELSE {"nil", "raise"}

\* A call site, constant cache, unwind site or counter on the heap.
Site(kind, name, at, priv, sup, vcall, handler, type) ==
  [kind |-> kind, name |-> name, ip |-> at, private |-> priv, super |-> sup,
   vcall |-> vcall, handler |-> handler, type |-> type]

\* UnwindSite::eNone
eNone == 0

\* ------------------------------------------------------------------- state

VARIABLES
  ops, lits, stack_size,          \* the compiled code and the stack size
  opcodes,                        \* machine_code->opcodes
  references, references_count,   \* machine_code->references()
  call_site_count, constant_cache_count, unwind_site_count,
  sites,                          \* the sites allocated so far, by identity
  pc, ip,                         \* where prepare stands
  rcount, rindex, calls_count, constants_count, unwind_count,
  allow_private, is_super,
  overrun,                        \* a write past the references array
  before,                         \* the machine code when prepare was called
  first,                          \* the result of the first prepare
  frame                           \* the call frame and state of execute

inputs  == <<ops, lits, stack_size>>
mcode   == <<opcodes, references, references_count, call_site_count,
             constant_cache_count, unwind_site_count>>
locals  == <<rcount, rindex, calls_count, constants_count, unwind_count,
             allow_private, is_super>>
vars    == <<inputs, mcode, sites, pc, ip, locals, overrun, before, first,
             frame>>

total == Len(ops)

\* Word i of a stream, 0-based.
At(s, i) == s[i + 1]

\* The stream s with word i replaced.
Put(s, i, w) == [s EXCEPT ![i + 1] = w]

\* The machine code as a caller sees it.
MachineCode ==
  [opcodes |-> opcodes, references |-> references,
   references_count |-> references_count, sites |-> sites,
   call_site_count |-> call_site_count,
   constant_cache_count |-> constant_cache_count,
   unwind_site_count |-> unwind_site_count]

NoFrame ==
  [pc |-> "idle", stack_ptr |-> 0, thrown |-> "none", had |-> "nil",
   ret |-> "none", raised |-> "none", locations |-> "nil", flushed |-> FALSE]

\* The machine code of a stream before prepare has touched it.
Fresh(stream) ==
  [opcodes |-> [i \in 1..Len(stream) |-> Unset], references |-> <<>>,
   references_count |-> 0, sites |-> <<>>, call_site_count |-> 0,
   constant_cache_count |-> 0, unwind_site_count |-> 0]

\* A compiled code with no instruction yet.
Init ==
  /\ ops = <<>>
  /\ lits \in LiteralPools
  /\ stack_size \in StackSizes
  /\ opcodes = <<>>
  /\ references = <<>>
  /\ references_count = 0
  /\ call_site_count = 0
  /\ constant_cache_count = 0
  /\ unwind_site_count = 0
  /\ sites = <<>>
  /\ pc = "load"
  /\ ip = 0
  /\ rcount = 0
  /\ rindex = 0
  /\ calls_count = 0
  /\ constants_count = 0
  /\ unwind_count = 0
  /\ allow_private = FALSE
  /\ is_super = FALSE
  /\ overrun = FALSE
  /\ before = Fresh(<<>>)
  /\ first = <<>>
  /\ frame = NoFrame

\* ------------------------------------------------------- the compiled code

\* The compiled code gets one more instruction; maxlen bounds the stream.
Emit(maxlen) ==
  /\ pc = "load"
  /\ \E w \in 1..4 :
       /\ Len(ops) + w <= maxlen
       /\ \E i \in InstrsOfWidth(w) : ops' = ops \o i
  /\ UNCHANGED <<lits, stack_size, mcode, sites, pc, ip, locals, overrun,
                 before, first, frame>>

\* prepare is called with a machine code of the length of the stream.
Call ==
  /\ pc = "load"
  /\ opcodes' = [i \in 1..Len(ops) |-> Unset]
  /\ before' = Fresh(ops)
  /\ pc' = "pass1"
  /\ UNCHANGED <<inputs, references, references_count, call_site_count,
                 constant_cache_count, unwind_site_count, sites, ip, locals,
                 overrun, first, frame>>

\* prepare is called on a stream whose last instruction lacks its last
\* operands.
CallCut(maxlen) ==
  /\ pc = "load"
  /\ \E w \in 2..4 :
       /\ Len(ops) + w <= maxlen
       /\ \E i \in InstrsOfWidth(w) : \E k \in 1..(w - 1) :
            /\ ops' = ops \o SubSeq(i, 1, k)
            /\ opcodes' = [j \in 1..(Len(ops) + k) |-> Unset]
            /\ before' = Fresh(ops \o SubSeq(i, 1, k))
  /\ pc' = "pass1"
  /\ UNCHANGED <<lits, stack_size, references, references_count,
                 call_site_count, constant_cache_count, unwind_site_count,
                 sites, ip, locals, overrun, first, frame>>

\* ------------------------------------------------------------------ pass 1

\* The opcode at the header ip of the input.
OpAt(at) == At(ops, at).obj


\* CountsReference without the unwind opcode.
CountsReference_NoUnwind(op) ==
  op \in {"create_block", "push_literal", "push_memo", "check_serial",
          "check_serial_private", "send_super_stack_with_block",
          "send_super_stack_with_splat", "zsuper", "send_vcall",
          "send_method", "send_stack", "send_stack_with_block",
          "send_stack_with_splat", "object_to_s", "push_const", "find_const",
          "setup_unwind", "b_if_serial", "r_load_literal"}

\* The opcodes pass 1 counts a reference slot for.
CountsReference(op) ==
  op \in {"create_block", "push_literal", "push_memo", "check_serial",
          "check_serial_private", "send_super_stack_with_block",
          "send_super_stack_with_splat", "zsuper", "send_vcall",
          "send_method", "send_stack", "send_stack_with_block",
          "send_stack_with_splat", "object_to_s", "push_const", "find_const",
          "setup_unwind", "unwind", "b_if_serial", "r_load_literal"}


\* CopyOperands copying only into words never written.
CopyOperands_OnlyUnset(opc, at, width) ==
  [i \in 1..Len(opc) |->
     IF i - 1 > at /\ i - 1 < at + width /\ opc[i].tag = "unset"
     THEN Raw(ops[i].v) ELSE opc[i]]

\* switch(width): the operands of the instruction at ip copied from the
\* input, to_native.
CopyOperands(opc, at, width) ==
  [i \in 1..Len(opc) |->
     IF i - 1 > at /\ i - 1 < at + width THEN Raw(ops[i].v) ELSE opc[i]]

\* One iteration of the first loop.
Pass1Step ==
  /\ pc = "pass1"
  /\ ip < total
  /\ ip + Width(OpAt(ip)) <= total
  /\ LET op    == OpAt(ip)
         width == Width(op)
     IN /\ opcodes' = CopyOperands(Put(opcodes, ip, HandlerOf(op)), ip, width)
        /\ rcount' = IF width > 1 /\ CountsReference(op) THEN rcount + 1
                     ELSE rcount
        /\ ip' = ip + width
  /\ UNCHANGED <<inputs, references, references_count, call_site_count,
                 constant_cache_count, unwind_site_count, sites, pc, rindex,
                 calls_count, constants_count, unwind_count, allow_private,
                 is_super, overrun, before, first, frame>>

\* The first operand read, ops->at(state, ip + width - 1), is past the end
\* of the tuple: the header is written and the bounds error leaves prepare.
Pass1Fail ==
  /\ pc = "pass1"
  /\ ip < total
  /\ ip + Width(OpAt(ip)) > total
  /\ opcodes' = Put(opcodes, ip, HandlerOf(OpAt(ip)))
  /\ pc' = "failed"
  /\ UNCHANGED <<inputs, references, references_count, call_site_count,
                 constant_cache_count, unwind_site_count, sites, ip, locals,
                 overrun, before, first, frame>>

\* machine_code->references_count(rcount); references(new size_t[rcount]).
\* The entries of the new array are not initialised: -1 stands for that.
AllocReferences ==
  /\ pc = "pass1"
  /\ ip >= total
  /\ references_count' = rcount
  /\ references' = [i \in 1..rcount |-> -1]
  /\ allow_private' = FALSE
  /\ is_super' = FALSE
  /\ pc' = "pass2"
  /\ ip' = 0
  /\ UNCHANGED <<inputs, opcodes, call_site_count, constant_cache_count,
                 unwind_site_count, sites, rcount, rindex, calls_count,
                 constants_count, unwind_count, overrun, before, first, frame>>

\* ------------------------------------------------------------------ pass 2


\* BiasOffsets with the third operand of the three-register class left out.
BiasOffsets_TwoOfThree(op) ==
  CASE op = "b_if_serial" -> {2}
    [] op \in OneRegOps -> {1}
    [] op = "r_load_nil" -> {1}
    [] op = "r_load_literal" -> {1}
    [] op \in TwoRegOps -> {1, 2}
    [] op \in ThreeRegOps -> {1, 2}
    [] OTHER -> {}

\* "Fix register offsets": the operands of op that get stack_size added.
BiasOffsets(op) ==
  CASE op = "b_if_serial" -> {2}
    [] op \in OneRegOps -> {1}
    [] op = "r_load_nil" -> {1}
    [] op = "r_load_literal" -> {1}
    [] op \in TwoRegOps -> {1, 2}
    [] op \in ThreeRegOps -> {1, 2, 3}
    [] OTHER -> {}

\* opcodes[at + k] += stack_size for the operands k of op.
Bias(opc, op, at) ==
  [i \in 1..Len(opc) |->
     IF (i - 1) - at \in BiasOffsets(op) THEN Add(opc[i], stack_size)
     ELSE opc[i]]

\* The first switch but for the literal of r_load_literal.
FixRegisters(opc, op, at) ==
  IF op = "r_load_nil" THEN Put(Bias(opc, op, at), at + 2, NilTag(at))
  ELSE Bias(opc, op, at)

\* The opcodes that read a literal, and the operand that holds its index.
LookupOps ==
  {"r_load_literal", "create_block", "invoke_primitive"} \cup LiteralOps
    \cup SymbolOps \cup SendOps \cup ConstOps


\* LiteralOperand reading the index of every literal from operand 1.
LiteralOperand_First(op) == 1

LiteralOperand(op) == IF op = "r_load_literal" THEN 2 ELSE 1

\* What the lookup of op's literal can give; "none" when op reads none.
Lookups(op, at) ==
  IF op \in LookupOps
  THEN LitAt(lits, At(opcodes, at + LiteralOperand(op)).v)
  ELSE {"none"}

\* Whether the lookup, or the as<> cast of what it gave, throws.
Throws(op, o) ==
  \/ o = "raise"
  \/ op \in SymbolOps \cup ConstOps \cup {"invoke_primitive"} /\ ~IsSymbol(o)
  \/ op = "create_block" /\ ~IsCode(o) /\ ~IsString(o)


\* RefSlot recording operand 1 for r_load_literal as for the other
\* literals.
RefSlot_Operand1(op, at) ==
  CASE op \in {"r_load_literal", "create_block"} \cup LiteralOps \cup SendOps
                \cup ConstOps \cup UnwindOps -> at + 1
    [] OTHER -> -1

\* machine_code->references()[rindex++] = slot: the slot op records, -1
\* when it records none.
RefSlot(op, at) ==
  CASE op = "r_load_literal" -> at + 2
    [] op \in {"create_block"} \cup LiteralOps \cup SendOps \cup ConstOps
                \cup UnwindOps -> at + 1
    [] OTHER -> -1

Recorded(op, at) ==
  IF RefSlot(op, at) = -1 \/ rindex >= Len(references) THEN references
  ELSE [references EXCEPT ![rindex + 1] = RefSlot(op, at)]

RindexAfter(op, at) == IF RefSlot(op, at) = -1 THEN rindex ELSE rindex + 1

OverrunAfter(op, at) ==
  overrun \/ (RefSlot(op, at) # -1 /\ rindex >= Len(references))

\* if(allow_private) call_site->set_is_private(), after the opcodes that
\* set allow_private themselves.
IsPrivate(op, ap) == ap \/ op \in {"send_vcall", "object_to_s", "b_if_serial"}


\* AllowPrivateAfter without the reset after a send.
AllowPrivateAfter_Sticky(op, ap) ==
  CASE op = "allow_private" -> TRUE
    [] OTHER -> ap

\* allow_private after the instruction.
AllowPrivateAfter(op, ap) ==
  CASE op = "allow_private" -> TRUE
    [] op \in SendOps -> FALSE
    [] OTHER -> ap

\* is_super when the call site is made, and after the instruction.
IsSuperAt(op, sup) == sup \/ op \in SuperOps

\* IsSuperAfter without the reset after a send.
IsSuperAfter_Kept(op, sup) == sup \/ op \in SuperOps

IsSuperAfter(op, sup) == IF op \in SendOps THEN FALSE ELSE sup

\* The site op allocates; o is what the lookup of its literal gave.
NewSite(opc, op, at, o) ==
  CASE op \in SendOps ->
         Site("call", IF IsSymbol(o) THEN o ELSE "nil", at,
              IsPrivate(op, allow_private), IsSuperAt(op, is_super),
              op = "send_vcall", 0, eNone)
    [] op \in ConstOps -> Site("const", o, at, FALSE, FALSE, FALSE, 0, eNone)
    [] op = "setup_unwind" ->
         Site("unwind", "", at, FALSE, FALSE, FALSE,
              At(opc, at + 1).v, At(opc, at + 2).v)
    [] op = "unwind" -> Site("unwind", "", at, FALSE, FALSE, FALSE, 0, eNone)

AllocatesSite(op) == op \in SendOps \cup ConstOps \cup UnwindOps

\* machine_code->store_call_site, store_constant_cache, store_unwind_site:
\* the site becomes operand 1 of its instruction.
StoreSite(opc, at, id) == Put(opc, at + 1, SiteRef(id))

\* machine_code->store_measurement: the counter becomes operand 1.
StoreMeasurement(opc, at) == Put(opc, at + 1, CounterAt(at))

\* The second switch and the literal of r_load_literal: the words of the
\* instruction at `at` rewritten; id is the identity of the site allocated.
Rewrite(opc, op, at, o, id) ==
  CASE op = "push_int" -> Put(opc, at + 1, Boxed(At(opc, at + 1).v))
    [] op = "push_tagged_nil" -> Put(opc, at + 1, NilTag(at))
    [] op = "r_load_literal" -> Put(opc, at + 2, ObjRef(o))
    [] op \in {"create_block"} \cup LiteralOps \cup SymbolOps ->
         Put(opc, at + 1, ObjRef(o))
    [] op = "invoke_primitive" -> Put(opc, at + 1, InvokerOf(o))
    [] AllocatesSite(op) -> StoreSite(opc, at, id)
    [] op = "m_counter" -> StoreMeasurement(opc, at)
    [] OTHER -> opc


\* CallsAfter not counting the call site of b_if_serial.
CallsAfter_NoSerialBranch(op) ==
  IF op \in SendOps \ {"b_if_serial"} THEN calls_count + 1 ELSE calls_count

CallsAfter(op)     == IF op \in SendOps THEN calls_count + 1 ELSE calls_count
ConstantsAfter(op) ==
  IF op \in ConstOps THEN constants_count + 1 ELSE constants_count
UnwindsAfter(op)   ==
  IF op \in UnwindOps THEN unwind_count + 1 ELSE unwind_count

\* One iteration of the second loop that completes.
Pass2Step ==
  /\ pc = "pass2"
  /\ ip < total
  /\ LET op == OpAt(ip)
     IN \E o \in Lookups(op, ip) :
          /\ ~Throws(op, o)
          /\ opcodes' = Rewrite(FixRegisters(opcodes, op, ip), op, ip, o,
                                Len(sites) + 1)
          /\ sites' = IF AllocatesSite(op)
                      THEN Append(sites, NewSite(opcodes, op, ip, o))
                      ELSE sites
          /\ references' = Recorded(op, ip)
          /\ rindex' = RindexAfter(op, ip)
          /\ overrun' = OverrunAfter(op, ip)
          /\ calls_count' = CallsAfter(op)
          /\ constants_count' = ConstantsAfter(op)
          /\ unwind_count' = UnwindsAfter(op)
          /\ allow_private' = AllowPrivateAfter(op, allow_private)
          /\ is_super' = IsSuperAfter(op, is_super)
          /\ ip' = ip + Width(op)
  /\ UNCHANGED <<inputs, references_count, call_site_count,
                 constant_cache_count, unwind_site_count, pc, rcount, before,
                 first, frame>>

\* An iteration of the second loop that throws: what was written before the
\* lookup or the cast stays written.
Pass2Fail ==
  /\ pc = "pass2"
  /\ ip < total
  /\ LET op == OpAt(ip)
     IN \E o \in Lookups(op, ip) :
          /\ Throws(op, o)
          /\ opcodes' = IF op = "r_load_literal" THEN opcodes
                        ELSE FixRegisters(opcodes, op, ip)
          /\ references' = Recorded(op, ip)
          /\ rindex' = RindexAfter(op, ip)
          /\ overrun' = OverrunAfter(op, ip)
          /\ calls_count' = CallsAfter(op)
          /\ constants_count' = ConstantsAfter(op)
          /\ is_super' = IsSuperAt(op, is_super)
  /\ pc' = "failed"
  /\ UNCHANGED <<inputs, references_count, call_site_count,
                 constant_cache_count, unwind_site_count, sites, ip, rcount,
                 unwind_count, allow_private, before, first, frame>>

\* The counts stored after the second loop; prepare returns.
Finish ==
  /\ pc = "pass2"
  /\ ip >= total
  /\ call_site_count' = calls_count
  /\ constant_cache_count' = constants_count
  /\ unwind_site_count' = unwind_count
  /\ pc' = "done"
  /\ first' = IF first = <<>>
              THEN <<[MachineCode EXCEPT
                        !.call_site_count = calls_count,
                        !.constant_cache_count = constants_count,
                        !.unwind_site_count = unwind_count]>>
              ELSE first
  /\ UNCHANGED <<inputs, opcodes, references, references_count, sites, ip,
                 locals, overrun, before, frame>>

\* prepare called again on the machine code it has prepared.
Reprepare ==
  /\ pc = "done"
  /\ frame.pc = "idle"
  /\ before = Fresh(ops)
  /\ total > 0
  /\ before' = MachineCode
  /\ pc' = "pass1"
  /\ ip' = 0
  /\ rcount' = 0
  /\ rindex' = 0
  /\ calls_count' = 0
  /\ constants_count' = 0
  /\ unwind_count' = 0
  /\ allow_private' = FALSE
  /\ is_super' = FALSE
  /\ UNCHANGED <<inputs, mcode, sites, overrun, first, frame>>

\* ----------------------------------------------------------------- execute

\* Location::from_call_stack(state)
Snapshot == "snapshot"


\* ForwardedLocations without the snapshot for an exception that has none.
ForwardedLocations_Kept(loc) == loc

\* catch(RubyException&): the exception keeps the locations it has and gets
\* a snapshot when it has none.
ForwardedLocations(loc) == IF loc = "nil" THEN Snapshot ELSE loc

\* stack_ptr_ = stk - 1, the frame bound to the machine code, and what the
\* call left on the frame and on state.
Returned(thrown, had, ret, raised, locations, flushed) ==
  [pc |-> "returned", stack_ptr |-> -1, thrown |-> thrown, had |-> had,
   ret |-> ret, raised |-> raised, locations |-> locations,
   flushed |-> flushed]

Dispatchable == pc = "done" /\ frame.pc = "idle" /\ total > 0

\* The first handler, and those it dispatches to, return a value.
ExecuteReturns ==
  /\ Dispatchable
  /\ frame' = Returned("none", "nil", "value", "none", "nil", FALSE)
  /\ UNCHANGED <<inputs, mcode, sites, pc, ip, locals, overrun, before, first>>

CatchTypeError ==
  /\ Dispatchable
  /\ frame' = Returned("TypeError", "nil", "zero", "TypeError", Snapshot, TRUE)
  /\ UNCHANGED <<inputs, mcode, sites, pc, ip, locals, overrun, before, first>>

CatchRubyException ==
  /\ Dispatchable
  /\ \E loc \in {"nil", "existing"} :
       frame' = Returned("RubyException", loc, "zero", "RubyException",
                         ForwardedLocations(loc), FALSE)
  /\ UNCHANGED <<inputs, mcode, sites, pc, ip, locals, overrun, before, first>>

CatchStdException ==
  /\ Dispatchable
  /\ frame' = Returned("std::exception", "nil", "zero", "InterpreterError",
                       Snapshot, TRUE)
  /\ UNCHANGED <<inputs, mcode, sites, pc, ip, locals, overrun, before, first>>

CatchUnknown ==
  /\ Dispatchable
  /\ frame' = Returned("unknown", "nil", "zero", "InterpreterError",
                       Snapshot, TRUE)
  /\ UNCHANGED <<inputs, mcode, sites, pc, ip, locals, overrun, before, first>>

Execute ==
  ExecuteReturns \/ CatchTypeError \/ CatchRubyException \/ CatchStdException
    \/ CatchUnknown

\* ---------------------------------------------------------- specifications

Prepare ==
  Pass1Step \/ Pass1Fail \/ AllocReferences \/ Pass2Step \/ Pass2Fail
    \/ Finish

\* A compiled code and one prepare of a fresh machine code.
Next == Emit(MaxLen) \/ Call \/ CallCut(MaxLen) \/ Prepare

Spec == Init /\ [][Next]_vars

\* prepare, and prepare once more on the same machine code.
NextTwice ==
  Emit(TwiceLen) \/ Call \/ CallCut(TwiceLen) \/ Prepare \/ Reprepare

SpecTwice == Init /\ [][NextTwice]_vars

\* prepare, then execute.
NextExecute ==
  Emit(ExecLen) \/ Call \/ CallCut(ExecLen) \/ Prepare \/ Execute

SpecExecute == Init /\ [][NextExecute]_vars

\* ------------------------------------------------------------------ claims

\* The header positions of the input stream.
RECURSIVE HeadersFrom(_)
HeadersFrom(at) ==
  IF at >= total THEN {} ELSE {at} \cup HeadersFrom(at + Width(OpAt(at)))

Headers == HeadersFrom(0)

\* The stream indices the references array lists.
RefSet == {references[i] : i \in 1..Len(references)}

\* A word that holds an object: a resolved literal or a site.
HoldsReference(w) == w.tag \in {"obj", "site"}

\* The operand words of the stream.
OperandSlots == (0..(total - 1)) \ Headers

\* The literal an index names; nil past the end of the literals.
LiteralAt(index) ==
  IF index >= 0 /\ index < Len(lits) THEN lits[index + 1] ELSE "nil"

\* The input operand k of the instruction at h.
InputOperand(h, k) == At(ops, h + k).v

\* The slots of the reference-producing instructions: operand 2 of
\* r_load_literal, operand 1 of the literal pushes, create_block, the sends,
\* the constant lookups and the unwind instructions.
ProducedSlots ==
  {h + 2 : h \in {x \in Headers : OpAt(x) = "r_load_literal"}}
    \cup {h + 1 : h \in {x \in Headers :
                           OpAt(x) \in {"create_block", "push_literal",
                                        "push_memo", "push_const",
                                        "find_const", "setup_unwind",
                                        "unwind"} \cup SendOps}}

\* Operand 1 of set_ivar, push_ivar, set_const, set_const_at.
SymbolSlots == {h + 1 : h \in {x \in Headers : OpAt(x) \in SymbolOps}}

\* C1 as stated: after prepare, an operand word holds a heap reference (a
\* resolved literal, a call site, a constant cache, an unwind site) exactly
\* when its index is in the references array.
C1_AsStated ==
  pc = "done" =>
    \A i \in OperandSlots : HoldsReference(At(opcodes, i)) <=> i \in RefSet

\* C1, amended: after prepare the references array lists, each once, exactly
\* the slots of the reference-producing instructions, and each of them holds
\* a resolved literal or a site; the only other words that hold a resolved
\* literal are the Symbol operands of set_ivar, push_ivar, set_const and
\* set_const_at, which the array does not list.
C1_ReferenceSlots ==
  pc = "done" =>
    /\ RefSet = ProducedSlots
    /\ Len(references) = Cardinality(ProducedSlots)
    /\ \A i \in RefSet : HoldsReference(At(opcodes, i))
    /\ \A i \in OperandSlots \ RefSet :
         HoldsReference(At(opcodes, i)) =>
           i \in SymbolSlots /\ At(opcodes, i) = ObjRef("sym")

\* A prepared stream with a listed literal, a listed site and an unlisted
\* symbol operand.
C1_Witness ==
  /\ pc = "done"
  /\ \E i \in RefSet : At(opcodes, i).tag = "site"
  /\ \E i \in SymbolSlots : At(opcodes, i) = ObjRef("sym") /\ i \notin RefSet

\* C2 as stated: whenever execute ends in one of its failure paths the
\* frame's variable scope was flushed to the heap.
C2_FlushedOnFailure ==
  frame.pc = "returned" /\ frame.thrown # "none" => frame.flushed

\* C3: when the first handler fails, execute returns the sentinel 0 and
\* state carries an exception with locations: a snapshot for a type error
\* and the other host failures, and for a language exception the locations
\* it had, or a snapshot when it had none.
C3_RaisedWithLocation ==
  frame.pc = "returned" /\ frame.thrown # "none" =>
    /\ frame.ret = "zero"
    /\ frame.raised # "none"
    /\ frame.locations # "nil"
    /\ frame.thrown = "RubyException" /\ frame.had # "nil" =>
         frame.locations = frame.had
    /\ frame.thrown # "RubyException" \/ frame.had = "nil" =>
         frame.locations = "snapshot"

\* A language exception without locations was forwarded.
C3_Witness ==
  /\ frame.pc = "returned"
  /\ frame.thrown = "RubyException"
  /\ frame.had = "nil"
  /\ frame.raised = "RubyException"

\* C4 as stated: when prepare fails, the machine code is as it was before
\* the call.
C4_AtomicFailure == pc = "failed" => MachineCode = before

\* The operands the claim names as registers.
RegisterOperands(op) ==
  CASE op \in OneRegOps \cup {"r_load_nil", "r_load_literal"} -> {1}
    [] op = "b_if_serial" -> {2}
    [] op \in TwoRegOps -> {1, 2}
    [] op \in ThreeRegOps -> {1, 2, 3}
    [] OTHER -> {}

\* C5: after prepare every register operand is the input operand plus
\* stack_size, and every other operand that is still a number is the input
\* operand.
C5_OperandBiasing ==
  pc = "done" =>
    \A h \in Headers : \A k \in 1..(Width(OpAt(h)) - 1) :
      IF k \in RegisterOperands(OpAt(h))
      THEN At(opcodes, h + k) = Raw(InputOperand(h, k) + stack_size)
      ELSE At(opcodes, h + k).tag \in {"raw", "fixnum"} =>
             At(opcodes, h + k).v = InputOperand(h, k)

\* A three-register instruction that is not the first, prepared.
C5_Witness ==
  /\ pc = "done"
  /\ \E h \in Headers :
       /\ h > 0
       /\ OpAt(h) \in ThreeRegOps
       /\ At(opcodes, h + 3) = Raw(InputOperand(h, 3) + stack_size)

\* The instructions the claim calls literal-bearing.
ClaimedLiteralOps ==
  {"push_literal", "push_memo", "r_load_literal", "create_block"}
    \cup SymbolOps

\* C6 as stated: every literal-bearing instruction has operand 1 overwritten
\* with the literal its input operand 1 names and ip + 1 recorded as a
\* reference slot; invoke_primitive has operand 1 overwritten with the
\* invoker and no slot recorded.
C6_AsStated ==
  pc = "done" =>
    \A h \in Headers :
      /\ OpAt(h) \in ClaimedLiteralOps =>
           /\ At(opcodes, h + 1) = ObjRef(LiteralAt(InputOperand(h, 1)))
           /\ h + 1 \in RefSet
      /\ OpAt(h) = "invoke_primitive" =>
           /\ At(opcodes, h + 1) = InvokerOf(LiteralAt(InputOperand(h, 1)))
           /\ h + 1 \notin RefSet

\* C6, amended: push_literal, push_memo and create_block have operand 1
\* overwritten with the literal and ip + 1 recorded; r_load_literal has
\* operand 2 overwritten with the literal its input operand 2 names and
\* ip + 2 recorded, operand 1 being its register; set_ivar, push_ivar,
\* set_const and set_const_at have operand 1 overwritten with the Symbol
\* and record no slot; invoke_primitive has operand 1 overwritten with the
\* invoker and records no slot.
C6_LiteralResolution ==
  pc = "done" =>
    \A h \in Headers :
      /\ OpAt(h) \in {"push_literal", "push_memo", "create_block"} =>
           /\ At(opcodes, h + 1) = ObjRef(LiteralAt(InputOperand(h, 1)))
           /\ h + 1 \in RefSet
      /\ OpAt(h) = "r_load_literal" =>
           /\ At(opcodes, h + 2) = ObjRef(LiteralAt(InputOperand(h, 2)))
           /\ h + 2 \in RefSet
           /\ At(opcodes, h + 1) = Raw(InputOperand(h, 1) + stack_size)
           /\ h + 1 \notin RefSet
      /\ OpAt(h) \in SymbolOps =>
           /\ At(opcodes, h + 1) = ObjRef(LiteralAt(InputOperand(h, 1)))
           /\ IsSymbol(LiteralAt(InputOperand(h, 1)))
           /\ h + 1 \notin RefSet
      /\ OpAt(h) = "invoke_primitive" =>
           /\ At(opcodes, h + 1) = InvokerOf(LiteralAt(InputOperand(h, 1)))
           /\ h + 1 \notin RefSet

\* An r_load_literal whose two operands differ, and a symbol operand,
\* prepared.
C6_Witness ==
  /\ pc = "done"
  /\ \E h \in Headers :
       /\ OpAt(h) = "r_load_literal"
       /\ InputOperand(h, 1) # InputOperand(h, 2)
       /\ At(opcodes, h + 2) = ObjRef("str")
  /\ \E h \in Headers : OpAt(h) \in SymbolOps

\* The site in operand 1 of the instruction at h.
SiteAt(h) == sites[At(opcodes, h + 1).v]

\* The call sites created for the send at h.
CallSitesFor(h) ==
  {i \in 1..Len(sites) : sites[i].kind = "call" /\ sites[i].ip = h}

\* An allow_private lies before h with no send between it and h.
AllowedPrivate(h) ==
  \E a \in Headers :
    /\ a < h
    /\ OpAt(a) = "allow_private"
    /\ \A m \in Headers : a < m /\ m < h => OpAt(m) \notin SendOps

\* C7: the call site of a send is private exactly when the send is
\* send_vcall, object_to_s or b_if_serial, or an allow_private lies between
\* the previous send (or the start) and it.
C7_PrivateFlag ==
  pc = "done" =>
    \A h \in Headers :
      OpAt(h) \in SendOps =>
        /\ Cardinality(CallSitesFor(h)) = 1
        /\ \A i \in CallSitesFor(h) :
             sites[i].private <=>
               \/ OpAt(h) \in {"send_vcall", "object_to_s", "b_if_serial"}
               \/ AllowedPrivate(h)

\* allow_private, then a send made private by it, then a send that is not.
C7_Witness ==
  /\ pc = "done"
  /\ \E a, h, n \in Headers :
       /\ a < h /\ h < n
       /\ OpAt(a) = "allow_private"
       /\ OpAt(h) = "send_method"
       /\ \A i \in CallSitesFor(h) : sites[i].private
       /\ OpAt(n) = "send_method"
       /\ \A i \in CallSitesFor(n) : ~sites[i].private

\* The headers of the instructions of a class.
HeadersOf(class) == {h \in Headers : OpAt(h) \in class}

\* Every instruction of the class has a site of its own of the kind, made
\* for its ip, in operand 1.
Installed(class, kind) ==
  /\ \A h \in HeadersOf(class) :
       /\ At(opcodes, h + 1).tag = "site"
       /\ SiteAt(h).kind = kind
       /\ SiteAt(h).ip = h
  /\ \A h, g \in HeadersOf(class) :
       At(opcodes, h + 1) = At(opcodes, g + 1) => h = g

\* C8: after prepare the three counts are the numbers of send-class,
\* constant and unwind instructions, each of which has one site of its own.
C8_SiteCounts ==
  pc = "done" =>
    /\ call_site_count = Cardinality(HeadersOf(SendOps))
    /\ constant_cache_count = Cardinality(HeadersOf(ConstOps))
    /\ unwind_site_count = Cardinality(HeadersOf(UnwindOps))
    /\ Installed(SendOps, "call")
    /\ Installed(ConstOps, "const")
    /\ Installed(UnwindOps, "unwind")

\* A stream with one send and one unwind site, prepared.
C8_Witness ==
  /\ pc = "done"
  /\ call_site_count = 1
  /\ unwind_site_count = 1
  /\ \E h \in Headers : OpAt(h) = "send_stack"

\* The second prepare of the machine code has returned.
PreparedTwice == pc = "done" /\ total > 0 /\ before = first[1]

\* Two prepared words agree: the same word, or two sites alike but for
\* their identity.
SameWord(w, old) ==
  IF old.tag = "site"
  THEN w.tag = "site" /\ sites[w.v] = first[1].sites[old.v]
  ELSE w = old

C11_SuperFlag ==
  /\ pc = "pass2" => ~is_super
  /\ pc \in {"pass2", "done"} =>
       \A i \in 1..Len(sites) :
         sites[i].kind = "call" =>
           /\ OpAt(sites[i].ip) \in SendOps
           /\ sites[i].super <=> OpAt(sites[i].ip) \in SuperOps
  /\ pc = "done" =>
       \A h \in HeadersOf(SendOps) : CallSitesFor(h) # {}

\* zsuper with a super site, another instruction, then a send whose site is
\* not super.
C11_Witness ==
  /\ pc = "done"
  /\ \E z, m, h \in Headers :
       /\ z < m /\ m < h
       /\ OpAt(z) = "zsuper"
       /\ \E i \in CallSitesFor(z) : sites[i].super
       /\ OpAt(m) \notin SendOps
       /\ OpAt(h) = "send_method"
       /\ \E i \in CallSitesFor(h) : ~sites[i].super

====
